---- MODULE Spec2Model ----
(***************************************************************************)
(* Model of the WKT MULTIPOLYGON parser (parse_wkt_multipolygon) and of    *)
(* the memoised feature-collection builder (create_nta_geojson_full) of    *)
(* src/backend.py.                                                         *)
(*                                                                         *)
(* Text is a sequence of one-character strings.  The characters that occur *)
(* in the modelled inputs are parentheses, comma, blank, newline, minus,   *)
(* the decimal digits and the letters of MULTIPOLYGON in both cases plus   *)
(* "x"; the operators below are exact for every text over these.           *)
(***************************************************************************)
EXTENDS Integers, Sequences, FiniteSets, TLC

\* ------------------------------------------------------------------------
\* Characters and elementary string operations (Python str / re semantics)
\* ------------------------------------------------------------------------

Whitespace == {" ", "\n", "\t"}

Parens == {"(", ")"}

Digits == {"0", "1", "2", "3", "4", "5", "6", "7", "8", "9"}

SetMin(S) == CHOOSE x \in S : \A y \in S : x <= y

SetMax(S) == CHOOSE x \in S : \A y \in S : x >= y

\* str.strip(chars): drop leading and trailing characters that are in chars
StripChars(s, chars) ==
    LET keep == {k \in 1..Len(s) : s[k] \notin chars}
    IN IF keep = {} THEN << >> ELSE SubSeq(s, SetMin(keep), SetMax(keep))

\* str.strip()
Strip(s) == StripChars(s, Whitespace)

\* str.startswith(prefix)
StartsWith(s, prefix) ==
    /\ Len(s) >= Len(prefix)
    /\ SubSeq(s, 1, Len(prefix)) = prefix

\* first index >= from whose character is not in chars (Len(s)+1 if none):
\* the position a greedy run of chars* starting at from stops at
SkipWhile(s, from, chars) ==
    LET stop == {k \in from..Len(s) : s[k] \notin chars}
    IN IF stop = {} THEN Len(s) + 1 ELSE SetMin(stop)

\* first index >= from whose character is in chars (Len(s)+1 if none):
\* the position a greedy run of [^chars]* starting at from stops at
SkipUntil(s, from, chars) ==
    LET stop == {k \in from..Len(s) : s[k] \in chars}
    IN IF stop = {} THEN Len(s) + 1 ELSE SetMin(stop)

CharAt(s, k) == IF k >= 1 /\ k <= Len(s) THEN s[k] ELSE "eof"

RECURSIVE SplitFrom(_, _, _)
\* str.split(sep) for a one-character separator, pieces of s from index from
SplitFrom(s, sep, from) ==
    LET stop == SkipUntil(s, from, {sep})
    IN IF stop > Len(s)
       THEN << SubSeq(s, from, Len(s)) >>
       ELSE << SubSeq(s, from, stop - 1) >> \o SplitFrom(s, sep, stop + 1)

SplitOn(s, sep) == SplitFrom(s, sep, 1)

RECURSIVE TokensFrom(_, _)
\* str.split(): the maximal runs of non-whitespace characters, in order
TokensFrom(s, from) ==
    LET start == SkipWhile(s, from, Whitespace)
    IN IF start > Len(s)
       THEN << >>
       ELSE LET stop == SkipUntil(s, start, Whitespace)
            IN << SubSeq(s, start, stop - 1) >> \o TokensFrom(s, stop)

Tokens(s) == TokensFrom(s, 1)

\* ------------------------------------------------------------------------
\* float(): decimal integer literals with an optional minus sign
\* ------------------------------------------------------------------------

DigitVal(c) ==
    CASE c = "0" -> 0 [] c = "1" -> 1 [] c = "2" -> 2 [] c = "3" -> 3
      [] c = "4" -> 4 [] c = "5" -> 5 [] c = "6" -> 6 [] c = "7" -> 7
      [] c = "8" -> 8 [] c = "9" -> 9

\* float(tok) succeeds (otherwise it raises ValueError)
IsFloat(tok) ==
    LET body == IF Len(tok) >= 1 /\ tok[1] = "-" THEN Tail(tok) ELSE tok
    IN /\ Len(body) >= 1
       /\ \A k \in 1..Len(body) : body[k] \in Digits

RECURSIVE NatVal(_)
NatVal(ds) ==
    IF ds = << >> THEN 0
    ELSE 10 * NatVal(SubSeq(ds, 1, Len(ds) - 1)) + DigitVal(ds[Len(ds)])

\* the value of float(tok) when IsFloat(tok)
FloatVal(tok) ==
    IF tok[1] = "-" THEN 0 - NatVal(Tail(tok)) ELSE NatVal(tok)

\* ------------------------------------------------------------------------
\* parse_wkt_multipolygon
\* ------------------------------------------------------------------------

\* the missing-value marker of the_geom (NaN / None), not a text
Null == << "NaN" >>

pd_isna(v) == v = Null

\* mutant: the keyword compared in lower case
Keyword_lower == << "m", "u", "l", "t", "i", "p", "o", "l", "y", "g", "o", "n" >>

Keyword == << "M", "U", "L", "T", "I", "P", "O", "L", "Y", "G", "O", "N" >>

\* a ring is retained when it has at least this many coordinates
MinRingCoords == 3

\* the parser's return value: None, or a list of polygons
None == [isNone |-> TRUE, polys |-> << >>]

Some(polys) == [isNone |-> FALSE, polys |-> polys]

\* polygons if polygons else None
ListOrNone(polys) == IF polys # << >> THEN Some(polys) ELSE None

\* Values of the loops below carry raised: an exception left the loop body.

\* coords.append(...) over two consecutive stretches of a loop
CoordsThen(h, t) == [raised |-> h.raised \/ t.raised, coords |-> h.coords \o t.coords]

\* mutant: the ValueError of float() is not caught
TryFloats_uncaught(parts) ==
    IF IsFloat(parts[1]) /\ IsFloat(parts[2])
    THEN [raised |-> FALSE, coords |-> << << FloatVal(parts[1]), FloatVal(parts[2]) >> >>]
    ELSE [raised |-> TRUE, coords |-> << >>]

\* mutant: the pair is built as [lat, lon]
TryFloats_swapped(parts) ==
    IF IsFloat(parts[1]) /\ IsFloat(parts[2])
    THEN [raised |-> FALSE, coords |-> << << FloatVal(parts[2]), FloatVal(parts[1]) >> >>]
    ELSE [raised |-> FALSE, coords |-> << >>]

\* the two float() calls of the structured path inside try/except ValueError:
\* [lon, lat] from the first two tokens, nothing when float() fails
TryFloats(parts) ==
    IF IsFloat(parts[1]) /\ IsFloat(parts[2])
    THEN [raised |-> FALSE, coords |-> << << FloatVal(parts[1]), FloatVal(parts[2]) >> >>]
    ELSE [raised |-> FALSE, coords |-> << >>]

\* mutant: a candidate must have exactly 2 tokens
PartsCoords_exact(parts) ==
    IF Len(parts) = 2 THEN TryFloats(parts) ELSE [raised |-> FALSE, coords |-> << >>]

\* if len(parts) >= 2 (structured path)
PartsCoords(parts) ==
    IF Len(parts) >= 2 THEN TryFloats(parts) ELSE [raised |-> FALSE, coords |-> << >>]

\* one candidate of a ring of the structured path: strip, split, parse
PairCoords(pair) == PartsCoords(Tokens(Strip(pair)))

RECURSIVE RingCoordsFrom(_, _)
\* mutant: a candidate that float() rejects ends the loop (break for continue)
RingCoordsFrom_break(pairs, k) ==
    IF k > Len(pairs)
    THEN [raised |-> FALSE, coords |-> << >>]
    ELSE IF Len(Tokens(Strip(pairs[k]))) >= 2 /\ PairCoords(pairs[k]).coords = << >>
    THEN [raised |-> FALSE, coords |-> << >>]
    ELSE CoordsThen(PairCoords(pairs[k]), RingCoordsFrom(pairs, k + 1))

\* for pair in ring_str.split(','): the coordinates of candidates k.. in order
RingCoordsFrom(pairs, k) ==
    IF k > Len(pairs)
    THEN [raised |-> FALSE, coords |-> << >>]
    ELSE CoordsThen(PairCoords(pairs[k]), RingCoordsFrom(pairs, k + 1))

\* mutant: a ring of 2 coordinates is retained
RetainRing_two(c) ==
    [raised |-> c.raised,
     rings |-> IF Len(c.coords) >= MinRingCoords - 1 THEN << c.coords >> ELSE << >>]

\* if len(coords) >= 3: rings.append(coords) (the value is a list of 0 or 1 rings)
RetainRing(c) ==
    [raised |-> c.raised,
     rings |-> IF Len(c.coords) >= MinRingCoords THEN << c.coords >> ELSE << >>]

\* one ring candidate: clean up, parse the pairs, retain the ring or not
ParseRing(ring_str) ==
    RetainRing(RingCoordsFrom(SplitOn(StripChars(Strip(ring_str), Parens), ","), 1))

\* \s*\( at j: the index of the "(", else 0
RingSepOpen(s, k) == IF CharAt(s, k) = "(" THEN k ELSE 0

\* ,\s*\( at j: the index of the "(", else 0
RingSepComma(s, j) ==
    IF CharAt(s, j) = "," THEN RingSepOpen(s, SkipWhile(s, j + 1, Whitespace)) ELSE 0

\* mutant: the separator is the literal text "),(" without the \s*
RingSepEnd_literal(s, p) ==
    IF CharAt(s, p) = ")" /\ CharAt(s, p + 1) = "," /\ CharAt(s, p + 2) = "("
    THEN p + 2 ELSE 0

\* a match of \)\s*,\s*\( that starts at p: the index of its "(", else 0
RingSepEnd(s, p) ==
    IF CharAt(s, p) = ")" THEN RingSepComma(s, SkipWhile(s, p + 1, Whitespace)) ELSE 0

RECURSIVE SplitRingsFrom(_, _)
\* the pieces of s from start on, the next separator match starting at p
SplitRingsCut(s, start, p) ==
    << SubSeq(s, start, p - 1) >> \o SplitRingsFrom(s, RingSepEnd(s, p) + 1)

SplitRingsAt(s, start, seps) ==
    IF seps = {} THEN << SubSeq(s, start, Len(s)) >> ELSE SplitRingsCut(s, start, SetMin(seps))

\* re.split(r'\)\s*,\s*\(', ...): the pieces of s from index start on
SplitRingsFrom(s, start) ==
    SplitRingsAt(s, start, {p \in start..Len(s) : RingSepEnd(s, p) # 0})

SplitRings(poly_content) == SplitRingsFrom(poly_content, 1)

\* rings.append(...) over two consecutive stretches of the ring loop
RingsThen(h, t) == [raised |-> h.raised \/ t.raised, rings |-> h.rings \o t.rings]

RECURSIVE RingsOf(_, _)
\* for ring_str in ring_parts: the retained rings of parts k.., in order
RingsOf(ring_parts, k) ==
    IF k > Len(ring_parts)
    THEN [raised |-> FALSE, rings |-> << >>]
    ELSE RingsThen(ParseRing(ring_parts[k]), RingsOf(ring_parts, k + 1))

\* if rings: polygons.append(rings) (the value is a list of 0 or 1 polygons)
KeepPolygon(r) ==
    [raised |-> r.raised, polys |-> IF r.rings # << >> THEN << r.rings >> ELSE << >>]

\* one polygon group: split it into rings, parse them, keep the polygon or not
ParsePolygon(poly_content) == KeepPolygon(RingsOf(SplitRings(poly_content), 1))

RECURSIVE InnerGroupsEnd(_, _)
\* \([^()]*\)[^()]* from q, whose [^()]* after the "(" stops at c
InnerGroupAt(s, c) ==
    IF CharAt(s, c) = ")" THEN InnerGroupsEnd(s, SkipUntil(s, c + 1, Parens)) ELSE 0

\* (?:\([^()]*\)[^()]*)* from q: the index after the last repetition, or 0 when
\* a "(" starts a repetition that cannot be completed
InnerGroupsEnd(s, q) ==
    IF CharAt(s, q) = "(" THEN InnerGroupAt(s, SkipUntil(s, q + 1, Parens)) ELSE q

NoMatch == [matched |-> FALSE, from |-> 0, to |-> 0, end |-> 0]

\* \)\) at q closes the match that began at p
PolygonClose(s, p, q) ==
    IF q # 0 /\ CharAt(s, q) = ")" /\ CharAt(s, q + 1) = ")"
    THEN [matched |-> TRUE, from |-> p + 2, to |-> q - 1, end |-> q + 1]
    ELSE NoMatch

\* [^()]+ from p + 2 stops at r, and must not be empty
PolygonBody(s, p, r) ==
    IF r = p + 2 THEN NoMatch ELSE PolygonClose(s, p, InnerGroupsEnd(s, r))

\* polygon_pattern tried at index p: group 1 is from..to, the match ends at end
PolygonMatchAt(s, p) ==
    IF CharAt(s, p) = "(" /\ CharAt(s, p + 1) = "("
    THEN PolygonBody(s, p, SkipUntil(s, p + 2, Parens))
    ELSE NoMatch

\* mutant: only the first match is taken (re.search for re.findall)
FindPolygonsTake_first(s, m) == << SubSeq(s, m.from, m.to) >>

RECURSIVE FindPolygonsFrom(_, _)
FindPolygonsTake(s, m) ==
    << SubSeq(s, m.from, m.to) >> \o FindPolygonsFrom(s, m.end + 1)

FindPolygonsAt(s, starts) ==
    IF starts = {} THEN << >> ELSE FindPolygonsTake(s, PolygonMatchAt(s, SetMin(starts)))

\* re.findall(polygon_pattern, content): group 1 of the non-overlapping
\* matches from index p on, leftmost first
FindPolygonsFrom(s, p) ==
    FindPolygonsAt(s, {k \in p..Len(s) : PolygonMatchAt(s, k).matched})

FindPolygons(content) == FindPolygonsFrom(content, 1)

\* mutant: the polygons of a later match are placed before those of an earlier one
PolysThen_reversed(h, t) == [raised |-> h.raised \/ t.raised, polys |-> t.polys \o h.polys]

\* polygons.append(...) over two consecutive stretches of the polygon loop
PolysThen(h, t) == [raised |-> h.raised \/ t.raised, polys |-> h.polys \o t.polys]

RECURSIVE PolygonsOf(_, _)
\* for poly_content in polygon_matches: the kept polygons of groups k.., in order
PolygonsOf(polygon_matches, k) ==
    IF k > Len(polygon_matches)
    THEN [raised |-> FALSE, polys |-> << >>]
    ELSE PolysThen(ParsePolygon(polygon_matches[k]), PolygonsOf(polygon_matches, k + 1))

\* mutant: the pattern is not anchored at the end ($ is missing)
OuterClose_unanchored(s) == SetMax({0} \cup {q \in 1..Len(s) : s[q] = ")"})

\* the closing parenthesis \)$ matches: the last character, or the one before
\* a final newline; 0 when there is none
OuterClose(s) ==
    IF CharAt(s, Len(s)) = ")" THEN Len(s)
    ELSE IF CharAt(s, Len(s)) = "\n" /\ CharAt(s, Len(s) - 1) = ")" THEN Len(s) - 1
    ELSE 0

\* group 1 of the outer pattern, its "(" at a, the \s* after it stopping at b:
\* the greedy (.+) runs up to the closing parenthesis, and the \s* before it
\* gives back one blank when nothing else is left for (.+)
OuterGroup(s, a, b, close) ==
    IF close <= a THEN [matched |-> FALSE, group1 |-> << >>]
    ELSE IF b < close THEN [matched |-> TRUE, group1 |-> SubSeq(s, b, close - 1)]
    ELSE IF b - 1 > a THEN [matched |-> TRUE, group1 |-> SubSeq(s, b - 1, b - 1)]
    ELSE [matched |-> FALSE, group1 |-> << >>]

\* \s*\( after the keyword, the \s* stopping at a
OuterOpen(s, a) ==
    IF CharAt(s, a) = "("
    THEN OuterGroup(s, a, SkipWhile(s, a + 1, Whitespace), OuterClose(s))
    ELSE [matched |-> FALSE, group1 |-> << >>]

\* re.match(r'MULTIPOLYGON\s*\(\s*(.+)\s*\)$', s, re.DOTALL)
OuterMatch(s) ==
    IF StartsWith(s, Keyword)
    THEN OuterOpen(s, SkipWhile(s, Len(Keyword) + 1, Whitespace))
    ELSE [matched |-> FALSE, group1 |-> << >>]

TripleAt(s, p, c) == CharAt(s, p) = c /\ CharAt(s, p + 1) = c /\ CharAt(s, p + 2) = c

\* the places where ")))" can end a match that began with "(((" at p
FallbackCloses(s, p) == {q \in (p + 4)..Len(s) : TripleAt(s, q, ")")}

\* mutant: the group is greedy, (.+) for (.+?), and runs up to the last ")))"
FallbackGroup_greedy(s, opens) ==
    IF opens = {}
    THEN [matched |-> FALSE, group1 |-> << >>]
    ELSE [matched |-> TRUE,
          group1 |-> SubSeq(s, SetMin(opens) + 3, SetMax(FallbackCloses(s, SetMin(opens))) - 1)]

FallbackGroup(s, opens) ==
    IF opens = {}
    THEN [matched |-> FALSE, group1 |-> << >>]
    ELSE [matched |-> TRUE,
          group1 |-> SubSeq(s, SetMin(opens) + 3, SetMin(FallbackCloses(s, SetMin(opens))) - 1)]

\* re.search(r'\(\(\((.+?)\)\)\)', s, re.DOTALL): group 1 of the leftmost
\* match, whose lazy (.+?) stops at the first ")))" that leaves it non-empty
FallbackSearch(s) ==
    FallbackGroup(s, {p \in 1..Len(s) : TripleAt(s, p, "(") /\ FallbackCloses(s, p) # {}})

\* the two float() calls of the fallback inside try/except ValueError
FallbackTryFloats(parts) ==
    IF IsFloat(parts[1]) /\ IsFloat(parts[2])
    THEN [raised |-> FALSE, coords |-> << << FloatVal(parts[1]), FloatVal(parts[2]) >> >>]
    ELSE [raised |-> FALSE, coords |-> << >>]

\* if len(parts) >= 2 (fallback)
FallbackPartsCoords(parts) ==
    IF Len(parts) >= 2 THEN FallbackTryFloats(parts) ELSE [raised |-> FALSE, coords |-> << >>]

\* mutant: the parentheses around a candidate are stripped before it is split
FallbackPairCoords_stripParens(pair) ==
    FallbackPartsCoords(Tokens(StripChars(Strip(pair), Parens)))

\* one candidate of the fallback ring: the same steps as in the structured
\* path, written out a second time in the source
FallbackPairCoords(pair) == FallbackPartsCoords(Tokens(Strip(pair)))

RECURSIVE FallbackCoordsFrom(_, _)
\* for pair in coords_str.split(','): the coordinates of candidates k.. in order
FallbackCoordsFrom(pairs, k) ==
    IF k > Len(pairs)
    THEN [raised |-> FALSE, coords |-> << >>]
    ELSE CoordsThen(FallbackPairCoords(pairs[k]), FallbackCoordsFrom(pairs, k + 1))

\* if len(coords) >= 3: polygons.append([coords])
FallbackPolygon(c) ==
    [raised |-> c.raised,
     polys |-> IF Len(c.coords) >= MinRingCoords THEN << << c.coords >> >> ELSE << >>]

\* if coords_match: one ring of one polygon from group 1
FallbackMatched(m) ==
    IF m.matched
    THEN FallbackPolygon(FallbackCoordsFrom(SplitOn(m.group1, ","), 1))
    ELSE [raised |-> FALSE, polys |-> << >>]

\* the single-polygon fallback on the stripped text
Fallback(s) == FallbackMatched(FallbackSearch(s))

\* the outcome of one call: raised (an exception left the function), ret (the
\* value returned), path (the stage that decided it), groups (the number of
\* polygon_matches)
Outcome(raised, ret, path, groups) ==
    [raised |-> raised, ret |-> ret, path |-> path, groups |-> groups]

\* return polygons if polygons else None, after the fallback
AfterFallback(fb, groups) == Outcome(fb.raised, ListOrNone(fb.polys), "fallback", groups)

\* if not polygons: the fallback runs when the structured path kept no polygon
AfterStructured(s, st, groups) ==
    IF st.raised THEN Outcome(TRUE, None, "structured", groups)
    ELSE IF st.polys # << >> THEN Outcome(FALSE, ListOrNone(st.polys), "structured", groups)
    ELSE AfterFallback(Fallback(s), groups)

\* the structured path over the polygon groups found
AfterFindall(s, polygon_matches) ==
    AfterStructured(s, PolygonsOf(polygon_matches, 1), Len(polygon_matches))

\* if not match: return None
AfterOuterMatch(s, m) ==
    IF m.matched THEN AfterFindall(s, FindPolygons(m.group1))
    ELSE Outcome(FALSE, None, "outer", 0)

\* if not wkt_string.startswith("MULTIPOLYGON"): return None
AfterStrip(s) ==
    IF StartsWith(s, Keyword) THEN AfterOuterMatch(s, OuterMatch(s))
    ELSE Outcome(FALSE, None, "prefix", 0)

parse_wkt_multipolygon(wkt_string) ==
    IF pd_isna(wkt_string) \/ wkt_string = << >>
    THEN Outcome(FALSE, None, "missing", 0)
    ELSE AfterStrip(Strip(wkt_string))

\* ------------------------------------------------------------------------
\* create_nta_geojson_full
\* ------------------------------------------------------------------------

\* row.get(key, default) of a dataset row
RowGet(row, key, default) == IF key \in DOMAIN row THEN row[key] ELSE default

\* mutant: every geometry is typed MultiPolygon
Geometry_multi(polys) == [type |-> "MultiPolygon", coordinates |-> polys]

\* the geometry of a feature, typed by the number of polygons
Geometry(polys) ==
    IF Len(polys) = 1
    THEN [type |-> "Polygon", coordinates |-> polys[1]]
    ELSE [type |-> "MultiPolygon", coordinates |-> polys]

\* mutant: the id is taken from the borough name
Feature_idBoro(row, polys) ==
    [type |-> "Feature",
     geometry |-> Geometry(polys),
     properties |-> [NTAName |-> row["NTAName"],
                     BoroName |-> row["BoroName"],
                     NTA2020 |-> RowGet(row, "NTA2020", "")],
     id |-> row["BoroName"]]

\* the feature built for a row whose geometry parsed to polys
Feature(row, polys) ==
    [type |-> "Feature",
     geometry |-> Geometry(polys),
     properties |-> [NTAName |-> row["NTAName"],
                     BoroName |-> row["BoroName"],
                     NTA2020 |-> RowGet(row, "NTA2020", "")],
     id |-> row["NTAName"]]

FeatureCollection(fs) == [type |-> "FeatureCollection", features |-> fs]

\* mutant: the feature is put first in the list
AfterRow_prepend(fs, row, ret) ==
    IF ret.isNone THEN fs ELSE << [type |-> "Feature",
                                   geometry |-> Geometry(ret.polys),
                                   properties |-> [NTAName |-> row["NTAName"],
                                                   BoroName |-> row["BoroName"],
                                                   NTA2020 |-> RowGet(row, "NTA2020", "")],
                                   id |-> row["NTAName"]] >> \o fs

\* mutant: a row whose geometry is None gets a feature all the same
AfterRow_keepNone(fs, row, ret) ==
    Append(fs, [type |-> "Feature",
                geometry |-> Geometry(ret.polys),
                properties |-> [NTAName |-> row["NTAName"],
                                BoroName |-> row["BoroName"],
                                NTA2020 |-> RowGet(row, "NTA2020", "")],
                id |-> row["NTAName"]])

\* mutant: a row whose name already has a feature is skipped
AfterRow_dedupe(fs, row, ret) ==
    IF ret.isNone \/ (\E k \in 1..Len(fs) : fs[k].id = row["NTAName"]) THEN fs
    ELSE Append(fs, Feature(row, ret.polys))

\* the features list after the loop body has run for one row
AfterRow(fs, row, ret) ==
    IF ret.isNone THEN fs ELSE Append(fs, Feature(row, ret.polys))

\* ------------------------------------------------------------------------
\* Datasets the builder is run on: geometry trees written out as WKT, the
\* texts named in the specification, and one-character edits of WKT texts
\* ------------------------------------------------------------------------

MaxPolys == 2
MaxRings == 2
MaxRingLen == 3
MaxRows == 2
MaxCalls == 2

DigitChar(d) ==
    CASE d = 0 -> "0" [] d = 1 -> "1" [] d = 2 -> "2" [] d = 3 -> "3"
      [] d = 4 -> "4" [] d = 5 -> "5" [] d = 6 -> "6" [] d = 7 -> "7"
      [] d = 8 -> "8" [] d = 9 -> "9"

RECURSIVE NatStr(_)
NatStr(n) ==
    IF n < 10 THEN << DigitChar(n) >>
    ELSE NatStr(n \div 10) \o << DigitChar(n % 10) >>

\* the decimal text of an integer
IntStr(n) == IF n < 0 THEN << "-" >> \o NatStr(0 - n) ELSE NatStr(n)

\* a candidate of a tree: a well-formed pair x y, or (ok = FALSE) a candidate
\* whose first token is not a number
Pt(x, y) == [ok |-> TRUE, x |-> x, y |-> y]

BadPt(y) == [ok |-> FALSE, x |-> 0, y |-> y]

PairText(c) ==
    (IF c.ok THEN IntStr(c.x) ELSE << "x" >>) \o << " " >> \o IntStr(c.y)

RECURSIVE Join(_, _)
Join(texts, sep) ==
    IF texts = << >> THEN << >>
    ELSE IF Len(texts) = 1 THEN texts[1]
    ELSE texts[1] \o sep \o Join(Tail(texts), sep)

\* the separators of a WKT writer: after the keyword, between pairs, between
\* rings and between polygons
Styles ==
    << [kw |-> << " " >>, pair |-> << ",", " " >>, ring |-> << "," >>, poly |-> << "," >>],
       [kw |-> << " " >>, pair |-> << "," >>, ring |-> << "," >>, poly |-> << "," >>],
       [kw |-> << >>, pair |-> << ",", " " >>, ring |-> << ",", " " >>,
        poly |-> << " ", ",", " " >>] >>

RingText(ring, st) ==
    << "(" >> \o Join([k \in 1..Len(ring) |-> PairText(ring[k])], st.pair) \o << ")" >>

PolyText(poly, st) ==
    << "(" >> \o Join([k \in 1..Len(poly) |-> RingText(poly[k], st)], st.ring) \o << ")" >>

\* the keyword a WKT writer puts first
WktKeyword == << "M", "U", "L", "T", "I", "P", "O", "L", "Y", "G", "O", "N" >>

\* MULTIPOLYGON (((r1),(r2)),((r3)))
Wkt(tree, st) ==
    WktKeyword \o st.kw \o << "(" >>
            \o Join([k \in 1..Len(tree) |-> PolyText(tree[k], st)], st.poly) \o << ")" >>

\* ring number g of a generated tree: n distinct well-formed pairs that no
\* other ring has (negative and two-digit numbers occur)
GenRing(g, n) == [j \in 1..n |-> Pt(5 * g - 6, j)]

RECURSIVE SumTo(_, _)
SumTo(shape, k) == IF k = 0 THEN 0 ELSE shape[k] + SumTo(shape, k - 1)

\* the tree with shape[i] rings in polygon i; rings have n pairs, except the
\* ring number short (or every ring, when short exceeds their number), which
\* has 2
GenTree(shape, n, short) ==
    LET total == SumTo(shape, Len(shape))
        len(g) == IF g = short \/ short > total THEN 2 ELSE n
    IN [i \in 1..Len(shape) |->
          [j \in 1..shape[i] |-> GenRing(SumTo(shape, i - 1) + j, len(SumTo(shape, i - 1) + j))]]

Shapes == UNION {[1..k -> 1..MaxRings] : k \in 1..MaxPolys}

GenTrees ==
    {GenTree(sh, n, short) :
        sh \in Shapes, n \in 3..MaxRingLen, short \in 0..(MaxPolys * MaxRings + 1)}

Square(a, b) == << Pt(a, a), Pt(b, a), Pt(b, b), Pt(a, b), Pt(a, a) >>

Tri(a) == << Pt(a, a), Pt(a + 1, a), Pt(a + 1, a + 1), Pt(a, a) >>

\* the geometries of the specification's examples
TreeHole == << << Square(0, 10), Square(2, 4) >> >>

TreeSimple == << << Square(0, 1) >> >>

TreeTwo == << << Tri(0) >>, << Tri(5) >> >>

TreeThreeOne == GenTree(<< 3, 1 >>, 3, 0)

TreeShort == << << << Pt(0, 0), Pt(1, 1) >> >> >>

TreeShortHole == << << << Pt(0, 0), Pt(1, 1) >>, Tri(2) >> >>

TreeBadTokens ==
    << << << Pt(0, 0), Pt(1, 1), BadPt(2) >> >>, << << Pt(3, 3), Pt(4, 4), BadPt(5) >> >> >>

TreeOneBad == << << << Pt(0, 0), BadPt(9), Pt(1, 0), Pt(1, 1) >> >> >>

\* an input of the parser: the text, and the tree it was written from (if any)
FromTree(tree, st) == [the_geom |-> Wkt(tree, st), known |-> TRUE, tree |-> tree]

FromText(text) == [the_geom |-> text, known |-> FALSE, tree |-> << >>]

\* the tokens that float() rejects
Words == << << "x" >>, << "-" >> >>

\* a token of a candidate: the number x (ok), or the word number x
NumTok(n) == [ok |-> TRUE, x |-> n, y |-> 0]

WordTok(w) == [ok |-> FALSE, x |-> w, y |-> 0]

TokText(t) == IF t.ok THEN IntStr(t.x) ELSE Words[t.x]

CandTokens == {NumTok(0), NumTok(-1), WordTok(1), WordTok(2)}

\* the candidates of no token up to three tokens
Candidates == UNION {[1..n -> CandTokens] : n \in 0..3}

CandText(c) == Join([k \in 1..Len(c) |-> TokText(c[k])], << " " >>)

GoodCand(j) == << NumTok(7), NumTok(j) >>

\* n well-formed candidates, and the candidate c put after the k-th of them
CandRing(n, k, c) ==
    [j \in 1..(n + 1) |->
        IF j <= k THEN GoodCand(j) ELSE IF j = k + 1 THEN c ELSE GoodCand(j - 1)]

CandRings ==
    UNION {{CandRing(n, k, c) : k \in 0..n, c \in Candidates} : n \in {2, 3}}

CandRingBody(cands) ==
    Join([k \in 1..Len(cands) |-> CandText(cands[k])], << ",", " " >>)

\* MULTIPOLYGON (((c1, c2, c3)))
CandWkt(cands) ==
    WktKeyword \o << " ", "(", "(", "(" >> \o CandRingBody(cands) \o << ")", ")", ")" >>

\* MULTIPOLYGON (((5 5),(0 0, c1, c2, c3, 0 0),(5 5))): the candidates inside
\* a hole, away from the parentheses
CandHoleWkt(cands) ==
    WktKeyword
        \o << " ", "(", "(", "(", "5", " ", "5", ")", ",", "(", "0", " ", "0", ",", " " >>
        \o CandRingBody(cands)
        \o << ",", " ", "0", " ", "0", ")", ",", "(", "5", " ", "5", ")", ")", ")" >>

\* an input written from a list of candidates (kept as the only polygon of
\* tree, a candidate for a ring and a token for a pair)
FromCands(cands, text) == [the_geom |-> text, known |-> FALSE, tree |-> << cands >>]

CandInputs ==
    {FromCands(r, CandWkt(r)) : r \in CandRings}
    \cup {FromCands(r, CandHoleWkt(r)) : r \in {q \in CandRings : Len(q) = 4}}

\* two polygons, the first with a candidate whose first token is not a number
TreeBadLocal ==
    << << << Pt(0, 0), Pt(1, 0), Pt(1, 1), BadPt(9), Pt(0, 0) >> >>, << Tri(5) >> >>

TextPolygon ==
    << "P", "O", "L", "Y", "G", "O", "N", " ", "(", "(", "0", " ", "0", ",", "1", " ", "0",
       ",", "1", " ", "1", ",", "0", " ", "0", ")", ")" >>

TextLower ==
    << "m", "u", "l", "t", "i", "p", "o", "l", "y", "g", "o", "n", " ", "(", "(", "(",
       "0", " ", "0", ",", "1", " ", "0", ",", "1", " ", "1", ",", "0", " ", "0",
       ")", ")", ")" >>

\* "(((" at once followed by ")))", and pairs after it
TextEmptyBlock ==
    << "M", "U", "L", "T", "I", "P", "O", "L", "Y", "G", "O", "N", " ", "(", "(", "(", ")",
       ")", ")", ",", "1", " ", "1", ",", "2", " ", "2", ",", "3", " ", "3", ",", "4", " ",
       "4", ")", ")", ")" >>

\* two polygons with a hole each, written as two triple-parenthesis blocks
TextTwoBlocks ==
    << "M", "U", "L", "T", "I", "P", "O", "L", "Y", "G", "O", "N", " ", "(", "(", "(", "0",
       " ", "0", ",", "1", " ", "0", ",", "1", " ", "1", ")", ",", "(", "5", " ", "5", ",",
       "6", " ", "5", ",", "6", " ", "6", ")", ")", ")", ",", "(", "(", "(", "2", " ", "2",
       ",", "3", " ", "2", ",", "3", " ", "3", ")", ",", "(", "7", " ", "7", ",", "8", " ",
       "7", ",", "8", " ", "8", ")", ")", ")" >>

\* one parenthesis too many on both sides
TextFourParens ==
    << "M", "U", "L", "T", "I", "P", "O", "L", "Y", "G", "O", "N", " ", "(", "(", "(", "(",
       "0", " ", "0", ",", "1", " ", "0", ",", "1", " ", "1", ",", "0", " ", "0", ")", ")",
       ")", ")" >>

\* the empty geometry
TextEmptyWord ==
    << "M", "U", "L", "T", "I", "P", "O", "L", "Y", "G", "O", "N", " ", "E", "M", "P", "T",
       "Y" >>

\* the keyword alone
TextKeywordOnly ==
    << "M", "U", "L", "T", "I", "P", "O", "L", "Y", "G", "O", "N" >>

\* a dimension flag after the keyword
TextZ ==
    << "M", "U", "L", "T", "I", "P", "O", "L", "Y", "G", "O", "N", " ", "Z", " ", "(", "(",
       "(", "0", " ", "0", ",", "1", " ", "0", ",", "1", " ", "1", ")", ")", ")" >>

\* text after the final ")"
TextTrailing ==
    << "M", "U", "L", "T", "I", "P", "O", "L", "Y", "G", "O", "N", " ", "(", "(", "(", "0",
       " ", "0", ",", "1", " ", "0", ",", "1", " ", "1", ")", ")", ")", " ", "x" >>

\* nothing between the outer parentheses
TextNoInside ==
    << "M", "U", "L", "T", "I", "P", "O", "L", "Y", "G", "O", "N", "(", ")" >>

\* one blank between the outer parentheses
TextBlankInside ==
    << "M", "U", "L", "T", "I", "P", "O", "L", "Y", "G", "O", "N", " ", "(", " ", ")" >>

\* texts of unusual shapes
ShapeTexts ==
    {TextEmptyBlock, TextTwoBlocks, TextFourParens, TextEmptyWord, TextKeywordOnly,
     TextZ, TextTrailing, TextNoInside, TextBlankInside}

\* the texts that one deletion or one substitution makes of a text
Edits(text) ==
    {SubSeq(text, 1, k - 1) \o SubSeq(text, k + 1, Len(text)) : k \in 1..Len(text)}
    \cup {[text EXCEPT ![k] = c] : k \in 1..Len(text), c \in {"(", ")", ",", "x"}}

EditBases == {Wkt(TreeTwo, Styles[2]), Wkt(<< << Tri(0), Tri(2) >> >>, Styles[2])}

\* where a writer puts a blank between the two parentheses of a polygon: where
\* they open, where they close, or both
Gaps == {"open", "close", "both"}

\* ((ring)) with blanks between its parentheses
SpacedPolyText(ring, gap) ==
    << "(" >> \o (IF gap \in {"open", "both"} THEN << " " >> ELSE << >>)
             \o RingText(ring, Styles[2])
             \o (IF gap \in {"close", "both"} THEN << " " >> ELSE << >>) \o << ")" >>

\* MULTIPOLYGON ( ( (0 0, 1 0, 1 1, 0 0) ) )
TextSpacedExample ==
    WktKeyword \o << " ", "(", " ", "(", " " >> \o RingText(Tri(0), Styles[1])
               \o << " ", ")", " ", ")" >>

\* the texts of one and of two polygons of one ring in which every polygon is
\* written with blanks between its parentheses
SpacedTexts ==
    {TextSpacedExample}
    \cup {WktKeyword \o << " ", "(" >> \o SpacedPolyText(Tri(0), g) \o << ")" >> : g \in Gaps}
    \cup {WktKeyword \o << " ", "(" >> \o SpacedPolyText(Tri(0), g) \o << "," >>
                     \o SpacedPolyText(Tri(5), h) \o << ")" >> : g \in Gaps, h \in Gaps}

Inputs ==
    {FromTree(t, Styles[k]) : t \in GenTrees, k \in 1..Len(Styles)}
    \cup {FromTree(TreeHole, Styles[1]), FromTree(TreeSimple, Styles[1]),
          FromTree(TreeTwo, Styles[2]), FromTree(TreeThreeOne, Styles[3]),
          FromTree(TreeShort, Styles[1]), FromTree(TreeShortHole, Styles[1]),
          FromTree(TreeBadTokens, Styles[1]), FromTree(TreeOneBad, Styles[1])}
    \cup {FromText(TextPolygon), FromText(TextLower), FromText(Null), FromText(<< >>),
          FromText(<< " " >>), FromText(<< " " >> \o Wkt(TreeSimple, Styles[1]) \o << "\n" >>)}
    \cup {FromText(e) : e \in UNION {Edits(b) : b \in EditBases}}
    \cup CandInputs
    \cup {FromText(t) : t \in ShapeTexts}
    \cup {FromTree(TreeBadLocal, Styles[k]) : k \in 1..Len(Styles)}
    \cup {FromText(t) : t \in SpacedTexts}

\* the inputs of the datasets of several rows
FewInputs ==
    {FromTree(TreeSimple, Styles[1]), FromTree(TreeTwo, Styles[2]),
     FromTree(TreeHole, Styles[1]), FromText(TextPolygon)}

Attrs ==
    {[NTAName |-> "A", BoroName |-> "X", NTA2020 |-> "1"],
     [NTAName |-> "B", BoroName |-> "Y", NTA2020 |-> ""]}

Fixture(attr, input) ==
    [row |-> [NTAName |-> attr.NTAName, BoroName |-> attr.BoroName,
              NTA2020 |-> attr.NTA2020, the_geom |-> input.the_geom],
     known |-> input.known, tree |-> input.tree]

Datasets ==
    {<< >>}
    \cup {<< Fixture(CHOOSE a \in Attrs : a.NTAName = "A", x) >> : x \in Inputs}
    \cup UNION {[1..n -> {Fixture(a, x) : a \in Attrs, x \in FewInputs}] : n \in 2..MaxRows}

\* ------------------------------------------------------------------------
\* State
\* ------------------------------------------------------------------------

VARIABLES
    nta_geo,    \* the dataset: the rows, in order
    origin,     \* for each row, the tree its the_geom was written from (if known)
    cache,      \* the lru_cache of create_nta_geojson_full
    pc,         \* "idle", "loop" (inside the for loop) or "raised"
    i,          \* the number of rows the running (or last) call has iterated
    features,   \* the features list of the running (or last) computation
    polygons,   \* what parse_wkt_multipolygon returned for row i
    path,       \* the return statement the parser reached for row i
    returned,   \* what the last call of create_nta_geojson_full returned
    calls,      \* the number of calls made
    ring_loop,  \* the ring loop of the parser run on one polygon group by itself
    callers     \* threads that call create_nta_geojson_full at the same time

vars == << nta_geo, origin, cache, pc, i, features, polygons, path, returned, calls,
          ring_loop, callers >>

\* no polygon group is being looked at by itself
NoRingLoop ==
    [pc |-> "none", poly_content |-> << >>, source |-> << >>, ring_parts |-> << >>,
     k |-> 0, rings |-> << >>, polygons |-> << >>]

\* no thread is calling
NoCallers == [thread |-> << >>, cache |-> << >>, computed |-> 0, stored |-> 0]

NoValue == [set |-> FALSE, value |-> FeatureCollection(<< >>)]

Value(v) == [set |-> TRUE, value |-> v]

Init ==
    /\ \E d \in Datasets :
          /\ nta_geo = [k \in 1..Len(d) |-> d[k].row]
          /\ origin = [k \in 1..Len(d) |-> [known |-> d[k].known, tree |-> d[k].tree]]
    /\ cache = NoValue
    /\ pc = "idle"
    /\ i = 0
    /\ features = << >>
    /\ polygons = None
    /\ path = "none"
    /\ returned = NoValue
    /\ calls = 0
    /\ ring_loop = NoRingLoop
    /\ callers = NoCallers

\* mutant: the function is not memoized, every call runs the body
Call_uncached ==
    /\ pc = "idle"
    /\ calls < MaxCalls
    /\ calls' = calls + 1
    /\ pc' = "loop"
    /\ i' = 0
    /\ features' = << >>
    /\ returned' = NoValue
    /\ UNCHANGED << nta_geo, origin, cache, polygons, path, ring_loop, callers >>

\* a call of create_nta_geojson_full(): the cached value on a hit, else the
\* function body starts
Call ==
    /\ pc = "idle"
    /\ calls < MaxCalls
    /\ calls' = calls + 1
    /\ IF cache.set
       THEN /\ returned' = Value(cache.value)
            /\ UNCHANGED << pc, i, features >>
       ELSE /\ pc' = "loop"
            /\ i' = 0
            /\ features' = << >>
            /\ returned' = NoValue
    /\ UNCHANGED << nta_geo, origin, cache, polygons, path, ring_loop, callers >>

\* the rest of the loop body once the parser has ended with outcome o: skip
\* the row or append its feature; an exception of the parser ends the call
RowDone(row, o) ==
    /\ polygons' = o.ret
    /\ path' = o.path
    /\ IF o.raised
       THEN pc' = "raised" /\ UNCHANGED features
       ELSE pc' = "loop" /\ features' = AfterRow(features, row, o.ret)

\* one iteration of the for loop: parse the next row, then the rest of the body
IterRow ==
    /\ pc = "loop"
    /\ i < Len(nta_geo)
    /\ i' = i + 1
    /\ RowDone(nta_geo[i + 1], parse_wkt_multipolygon(nta_geo[i + 1]["the_geom"]))
    /\ UNCHANGED << nta_geo, origin, cache, returned, calls, ring_loop, callers >>

\* the loop is over: the collection is returned and the cache keeps it
Return ==
    /\ pc = "loop"
    /\ i = Len(nta_geo)
    /\ pc' = "idle"
    /\ returned' = Value(FeatureCollection(features))
    /\ cache' = Value(FeatureCollection(features))
    /\ UNCHANGED << nta_geo, origin, i, features, polygons, path, calls, ring_loop, callers >>

Next == Call \/ IterRow \/ Return

Spec == Init /\ [][Next]_vars

\* ------------------------------------------------------------------------
\* The ring loop of parse_wkt_multipolygon (the body of the loop over
\* polygon_matches) run on one polygon group by itself
\* ------------------------------------------------------------------------

\* lists of 1 to MaxRings + 1 rings of 2 to MaxRingLen well-formed pairs
RingLists ==
    UNION {{[g \in 1..m |-> GenRing(g, f[g])] : f \in [1..m -> 2..MaxRingLen]} :
              m \in 1..(MaxRings + 1)}

\* ")", optional whitespace, ",", optional whitespace, "("
RingSeps ==
    {<< ")", ",", "(" >>, << ")", ",", " ", "(" >>, << ")", " ", ",", "\n", " ", "(" >>}

\* r1),(r2),(r3: the text of a polygon group between its "((" and its "))"
GroupText(rings, sep) ==
    Join([g \in 1..Len(rings) |->
             Join([k \in 1..Len(rings[g]) |-> PairText(rings[g][k])], << ",", " " >>)], sep)

\* poly_content is one of polygon_matches, and rings = []
RingLoopInit ==
    /\ nta_geo = << >>
    /\ origin = << >>
    /\ cache = NoValue
    /\ pc = "idle"
    /\ i = 0
    /\ features = << >>
    /\ polygons = None
    /\ path = "none"
    /\ returned = NoValue
    /\ calls = 0
    /\ callers = NoCallers
    /\ \E rs \in RingLists, sep \in RingSeps :
          ring_loop = [pc |-> "split", poly_content |-> GroupText(rs, sep), source |-> rs,
                       ring_parts |-> << >>, k |-> 0, rings |-> << >>, polygons |-> << >>]

\* ring_parts = re.split(r'\)\s*,\s*\(', poly_content)
SplitRingParts ==
    /\ ring_loop.pc = "split"
    /\ ring_loop' = [ring_loop EXCEPT !.pc = "rings",
                                      !.ring_parts = SplitRings(ring_loop.poly_content)]
    /\ UNCHANGED << nta_geo, origin, cache, pc, i, features, polygons, path, returned, calls,
                    callers >>

\* rings after the body of the loop over ring_parts has ended with r
RingDone(r) ==
    ring_loop' = [ring_loop EXCEPT !.pc = IF r.raised THEN "raised" ELSE "rings",
                                   !.k = ring_loop.k + 1,
                                   !.rings = r.rings]

\* one iteration of for ring_str in ring_parts
RingStep ==
    /\ ring_loop.pc = "rings"
    /\ ring_loop.k < Len(ring_loop.ring_parts)
    /\ RingDone(RingsThen([raised |-> FALSE, rings |-> ring_loop.rings],
                          ParseRing(ring_loop.ring_parts[ring_loop.k + 1])))
    /\ UNCHANGED << nta_geo, origin, cache, pc, i, features, polygons, path, returned, calls,
                    callers >>

\* if rings: polygons.append(rings)
KeepStep ==
    /\ ring_loop.pc = "rings"
    /\ ring_loop.k = Len(ring_loop.ring_parts)
    /\ ring_loop' =
          [ring_loop EXCEPT !.pc = "done",
                            !.polygons = KeepPolygon([raised |-> FALSE,
                                                      rings |-> ring_loop.rings]).polys]
    /\ UNCHANGED << nta_geo, origin, cache, pc, i, features, polygons, path, returned, calls,
                    callers >>

RingLoopNext == SplitRingParts \/ RingStep \/ KeepStep

SpecRings == RingLoopInit /\ [][RingLoopNext]_vars

\* ------------------------------------------------------------------------
\* create_nta_geojson_full called by several threads at the same time: the
\* wrapper of lru_cache looks the result up, calls the function on a miss
\* without holding a lock, and stores the result unless another call has
\* stored one meanwhile
\* ------------------------------------------------------------------------

NumCallers == 2

Callers == 1..NumCallers

\* the datasets of the concurrent calls
CallerDatasets ==
    UNION {[1..n -> {Fixture(CHOOSE a \in Attrs : a.NTAName = "A", x) : x \in FewInputs}] :
              n \in 0..MaxRows}

\* a thread about to call
NewCaller == [pc |-> "call", i |-> 0, features |-> << >>, result |-> << >>]

CallersInit ==
    /\ \E d \in CallerDatasets :
          /\ nta_geo = [k \in 1..Len(d) |-> d[k].row]
          /\ origin = [k \in 1..Len(d) |-> [known |-> d[k].known, tree |-> d[k].tree]]
    /\ cache = NoValue
    /\ pc = "idle"
    /\ i = 0
    /\ features = << >>
    /\ polygons = None
    /\ path = "none"
    /\ returned = NoValue
    /\ calls = 0
    /\ ring_loop = NoRingLoop
    /\ callers = [thread |-> [t \in Callers |-> NewCaller],
                  cache |-> << >>, computed |-> 0, stored |-> 0]

\* thread t enters the wrapper: a hit returns the cached object, a miss
\* starts the function body
CallerLookup(t) ==
    /\ callers.thread[t].pc = "call"
    /\ callers' =
          IF callers.cache # << >>
          THEN [callers EXCEPT !.thread[t].pc = "done", !.thread[t].result = callers.cache]
          ELSE [callers EXCEPT !.thread[t].pc = "loop"]
    /\ UNCHANGED << nta_geo, origin, cache, pc, i, features, polygons, path, returned, calls,
                    ring_loop >>

\* the rest of the loop body of thread t once the parser has ended with o
CallerRowDone(t, row, o) ==
    callers' = [callers EXCEPT
                   !.thread[t].pc = IF o.raised THEN "raised" ELSE "loop",
                   !.thread[t].i = callers.thread[t].i + 1,
                   !.thread[t].features =
                       IF o.raised THEN callers.thread[t].features
                       ELSE AfterRow(callers.thread[t].features, row, o.ret)]

\* one iteration of the for loop in thread t
CallerIterRow(t) ==
    /\ callers.thread[t].pc = "loop"
    /\ callers.thread[t].i < Len(nta_geo)
    /\ CallerRowDone(t, nta_geo[callers.thread[t].i + 1],
                     parse_wkt_multipolygon(nta_geo[callers.thread[t].i + 1]["the_geom"]))
    /\ UNCHANGED << nta_geo, origin, cache, pc, i, features, polygons, path, returned, calls,
                    ring_loop >>

\* the dict that thread t has built: a new object, named after its builder
BuiltBy(t) == [by |-> t, value |-> FeatureCollection(callers.thread[t].features)]

\* the function returns in thread t: the wrapper stores the new object unless
\* the key has been added during the call, and returns the new object
CallerReturn(t) ==
    /\ callers.thread[t].pc = "loop"
    /\ callers.thread[t].i = Len(nta_geo)
    /\ callers' =
          [callers EXCEPT
              !.thread[t].pc = "done",
              !.thread[t].result = << BuiltBy(t) >>,
              !.computed = callers.computed + 1,
              !.cache = IF callers.cache = << >> THEN << BuiltBy(t) >> ELSE callers.cache,
              !.stored = IF callers.cache = << >> THEN callers.stored + 1 ELSE callers.stored]
    /\ UNCHANGED << nta_geo, origin, cache, pc, i, features, polygons, path, returned, calls,
                    ring_loop >>

CallersNext ==
    \E t \in Callers : CallerLookup(t) \/ CallerIterRow(t) \/ CallerReturn(t)

SpecCallers == CallersInit /\ [][CallersNext]_vars

\* ------------------------------------------------------------------------
\* Properties
\* ------------------------------------------------------------------------

\* row i has been through the loop body: polygons is what the parser
\* returned for its the_geom
Processed == i >= 1 /\ pc # "raised"

LastGeom == nta_geo[i]["the_geom"]

LastTree == origin[i].tree

LastKnown == origin[i].known

\* the coordinates a tree of well-formed pairs stands for
TreeCoords(tree) ==
    [p \in 1..Len(tree) |->
        [r \in 1..Len(tree[p]) |->
            [k \in 1..Len(tree[p][r]) |-> << tree[p][r][k].x, tree[p][r][k].y >>]]]

\* every ring of the tree has at least 3 pairs, all of them well-formed
ValidTree(tree) ==
    /\ Len(tree) >= 1
    /\ \A p \in 1..Len(tree) :
          /\ Len(tree[p]) >= 1
          /\ \A r \in 1..Len(tree[p]) :
                /\ Len(tree[p][r]) >= 3
                /\ \A k \in 1..Len(tree[p][r]) : tree[p][r][k].ok

\* the feature appended for row i
LastFeature == features[Len(features)]

TextHoleExample ==
    << "M", "U", "L", "T", "I", "P", "O", "L", "Y", "G", "O", "N", " ", "(", "(", "(",
       "0", " ", "0", ",", " ", "1", "0", " ", "0", ",", " ", "1", "0", " ", "1", "0",
       ",", " ", "0", " ", "1", "0", ",", " ", "0", " ", "0", ")", ",", "(", "2", " ",
       "2", ",", " ", "4", " ", "2", ",", " ", "4", " ", "4", ",", " ", "2", " ", "4",
       ",", " ", "2", " ", "2", ")", ")", ")" >>

\* C1: for the specification's example of a polygon with a hole, the parser
\* returns one polygon with two rings, the exterior and then the hole, and the
\* builder types the geometry Polygon.
C1_HoleExample ==
    (Processed /\ LastGeom = TextHoleExample) =>
        /\ polygons = Some(<< << << << 0, 0 >>, << 10, 0 >>, << 10, 10 >>, << 0, 10 >>, << 0, 0 >> >>,
                                 << << 2, 2 >>, << 4, 2 >>, << 4, 4 >>, << 2, 4 >>, << 2, 2 >> >> >> >>)
        /\ features # << >>
        /\ LastFeature.geometry.type = "Polygon"

\* C2: round trip: the text written from a list of polygons whose rings all
\* have at least 3 well-formed pairs parses back to the same polygons, rings
\* and coordinates, in the original order.
C2_RoundTrip ==
    (Processed /\ LastKnown /\ ValidTree(LastTree)) =>
        polygons = Some(TreeCoords(LastTree))

\* C3: a text of two polygons, the first with an exterior and two holes and the
\* second with one ring, gives two polygon groups of three rings and one ring,
\* in order, and a MultiPolygon geometry of those two polygons.
C3_ThreeRingsThenOne ==
    (/\ Processed /\ LastKnown /\ ValidTree(LastTree)
     /\ Len(LastTree) = 2 /\ Len(LastTree[1]) = 3 /\ Len(LastTree[2]) = 1) =>
        /\ polygons = Some(TreeCoords(LastTree))
        /\ features # << >>
        /\ LastFeature.geometry =
              [type |-> "MultiPolygon", coordinates |-> TreeCoords(LastTree)]

\* the tree is one polygon of one ring
OneRingTree(tree) == Len(tree) = 1 /\ Len(tree[1]) = 1

\* C4: a text of a single polygon of a single ring of n >= 3 well-formed pairs
\* gives exactly one polygon with exactly one ring of exactly those n pairs, in
\* input order, and the feature's geometry is a Polygon of that ring.
C4_SingleRing ==
    (Processed /\ LastKnown /\ ValidTree(LastTree) /\ OneRingTree(LastTree)) =>
        /\ polygons = Some(<< << TreeCoords(LastTree)[1][1] >> >>)
        /\ features # << >>
        /\ LastFeature.geometry =
              [type |-> "Polygon", coordinates |-> << TreeCoords(LastTree)[1][1] >>]

\* C4 witness: the specification's example has been parsed to its five pairs
C4_Witness ==
    /\ Processed /\ LastKnown /\ LastTree = TreeSimple
    /\ polygons = Some(<< << << << 0, 0 >>, << 1, 0 >>, << 1, 1 >>, << 0, 1 >>, << 0, 0 >> >> >> >>)
    /\ features # << >>

\* the tree is k >= 2 polygons of one ring each
HoleFreeMulti(tree) == Len(tree) >= 2 /\ \A p \in 1..Len(tree) : Len(tree[p]) = 1

\* C5: a text of k >= 2 hole-free polygons, with or without blanks around the
\* commas between the polygons, gives exactly k polygons of exactly one ring
\* each, in input order, and the feature's geometry is a MultiPolygon.
C5_HoleFreePolygons ==
    (Processed /\ LastKnown /\ ValidTree(LastTree) /\ HoleFreeMulti(LastTree)) =>
        /\ polygons = Some(TreeCoords(LastTree))
        /\ Len(polygons.polys) = Len(LastTree)
        /\ \A p \in 1..Len(LastTree) : Len(polygons.polys[p]) = 1
        /\ features # << >>
        /\ LastFeature.geometry =
              [type |-> "MultiPolygon", coordinates |-> TreeCoords(LastTree)]

\* C5 witness: two hole-free polygons written with blanks around the comma
\* between them have been parsed
C5_Witness ==
    /\ Processed /\ LastKnown /\ ValidTree(LastTree) /\ HoleFreeMulti(LastTree)
    /\ LastGeom = Wkt(LastTree, Styles[3])
    /\ Len(polygons.polys) = 2

\* the text, trimmed, begins with the token MULTIPOLYGON in upper case
BeginsWithToken(text) ==
    /\ Len(Strip(text)) >= 12
    /\ SubSeq(Strip(text), 1, 12) =
          << "M", "U", "L", "T", "I", "P", "O", "L", "Y", "G", "O", "N" >>

\* C6: a loop iteration on a row whose geometry string does not begin, once
\* trimmed, with the case-sensitive token MULTIPOLYGON gets None from the
\* parser and adds no feature.
C6_ForeignPrefix ==
    [][(/\ pc = "loop" /\ i < Len(nta_geo) /\ i' = i + 1
        /\ nta_geo[i + 1]["the_geom"] # Null
        /\ ~BeginsWithToken(nta_geo[i + 1]["the_geom"]))
       => (polygons' = None /\ features' = features)]_vars

\* C6 witness: the POLYGON text of the specification has been through the loop
C6_Witness ==
    /\ Processed /\ LastGeom = TextPolygon
    /\ polygons = None /\ features = << >>

\* C7: no call of the parser raises: the builder is never left by an
\* exception, and every row that was parsed got None or a non-empty list.
C7_NeverRaises ==
    /\ pc # "raised"
    /\ i >= 1 => (polygons.isNone \/ polygons.polys # << >>)

\* C7 witness: a text with a non-numeric coordinate token has been parsed
C7_Witness ==
    /\ Processed /\ LastKnown /\ LastTree = TreeOneBad
    /\ polygons = Some(<< << << << 0, 0 >>, << 1, 0 >>, << 1, 1 >> >> >> >>)

\* the rings of a polygon of a tree that keep at least 3 coordinates
CascadeRing(ring) ==
    LET ok == SelectSeq(ring, LAMBDA c : c.ok)
    IN [k \in 1..Len(ok) |-> << ok[k].x, ok[k].y >>]

CascadeRings(poly) ==
    SelectSeq([r \in 1..Len(poly) |-> CascadeRing(poly[r])], LAMBDA c : Len(c) >= 3)

\* the polygons of a tree that keep at least one ring
CascadePolys(tree) ==
    SelectSeq([p \in 1..Len(tree) |-> CascadeRings(tree[p])], LAMBDA rs : rs # << >>)

\* C8: rings with fewer than 3 surviving coordinates are dropped, polygons
\* left without a ring are dropped, and a geometry left without a polygon is
\* absent and gives no feature.
C8_Cascade ==
    (Processed /\ LastKnown) =>
        /\ polygons = ListOrNone(CascadePolys(LastTree))
        /\ (i = 1 /\ CascadePolys(LastTree) = << >>) => features = << >>

\* the rows among the first n whose geometry does not parse to None, in
\* order, each with the polygons it parses to
KeptAppend(kept, n, ret) ==
    IF ret.isNone THEN kept ELSE Append(kept, [row |-> nta_geo[n], polys |-> ret.polys])

RECURSIVE KeptRows(_)
KeptRows(n) ==
    IF n = 0 THEN << >>
    ELSE KeptAppend(KeptRows(n - 1), n, parse_wkt_multipolygon(nta_geo[n]["the_geom"]).ret)

\* feature k is the one of the k-th kept row: its name and its coordinates
FeaturesOfKept(kept) ==
    /\ Len(features) = Len(kept)
    /\ \A k \in 1..Len(kept) :
          /\ features[k].id = kept[k].row["NTAName"]
          /\ features[k].geometry.coordinates = Geometry(kept[k].polys).coordinates

\* C9: the features are exactly one per row whose geometry parses, in the
\* rows' order, and none for the other rows; the collection returned holds
\* them, and never more features than rows.
C9_OnePerParsedRow ==
    /\ FeaturesOfKept(KeptRows(i))
    /\ returned.set =>
          /\ returned.value.features = features
          /\ i = Len(nta_geo)
          /\ Len(returned.value.features) <= Len(nta_geo)

\* C9 witness: a collection was returned for two rows, the first skipped and
\* the second kept
C9_Witness ==
    /\ returned.set
    /\ Len(nta_geo) = 2
    /\ Len(KeptRows(2)) = 1
    /\ parse_wkt_multipolygon(nta_geo[1]["the_geom"]).ret.isNone
    /\ Len(returned.value.features) = 1

\* feature k has the three properties and the geometry of the k-th kept row
PropertiesOfKept(kept) ==
    /\ Len(features) = Len(kept)
    /\ \A k \in 1..Len(kept) :
          /\ features[k].properties =
                [NTAName |-> kept[k].row["NTAName"],
                 BoroName |-> kept[k].row["BoroName"],
                 NTA2020 |-> kept[k].row["NTA2020"]]
          /\ features[k].geometry = Geometry(kept[k].polys)

\* C10: every feature's id is its own properties.NTAName, and its three
\* properties are those of the row that supplied its geometry.
C10_IdAndProperties ==
    /\ \A k \in 1..Len(features) : features[k].id = features[k].properties.NTAName
    /\ PropertiesOfKept(KeptRows(i))

\* C10 witness: two features built from two rows that differ in every property
C10_Witness ==
    /\ Len(features) = 2
    /\ features[1].id = "B" /\ features[2].id = "A"
    /\ features[1].properties.BoroName = "Y" /\ features[2].properties.NTA2020 = "1"
    /\ features[1].geometry.type # features[2].geometry.type

\* the geometry is a Polygon of the rings of the only polygon of polys
PolygonOf(geometry, polys) ==
    /\ geometry.type = "Polygon"
    /\ Len(polys) = 1
    /\ geometry.coordinates = polys[1]

\* the geometry is a MultiPolygon of the two or more polygons of polys
MultiPolygonOf(geometry, polys) ==
    /\ geometry.type = "MultiPolygon"
    /\ Len(polys) >= 2
    /\ geometry.coordinates = polys

\* C11: the feature of a row is typed Polygon exactly when the parser returned
\* one polygon, its coordinates being that polygon's rings, and MultiPolygon
\* exactly when it returned two or more, its coordinates being the polygons;
\* no feature has a MultiPolygon of fewer than 2 polygons or no polygon at all.
C11_GeometryType ==
    /\ (Processed /\ ~polygons.isNone) =>
          /\ features # << >>
          /\ (Len(polygons.polys) = 1 <=> LastFeature.geometry.type = "Polygon")
          /\ (Len(polygons.polys) >= 2 <=> LastFeature.geometry.type = "MultiPolygon")
          /\ \/ PolygonOf(LastFeature.geometry, polygons.polys)
             \/ MultiPolygonOf(LastFeature.geometry, polygons.polys)
    /\ \A k \in 1..Len(features) :
          /\ features[k].geometry.type \in {"Polygon", "MultiPolygon"}
          /\ Len(features[k].geometry.coordinates) >= 1
          /\ features[k].geometry.type = "MultiPolygon" =>
                Len(features[k].geometry.coordinates) >= 2

\* C11 witness: a row of one polygon and then a row of two polygons have each
\* got their feature
C11_Witness ==
    /\ Processed /\ Len(features) = 2
    /\ Len(polygons.polys) = 2
    /\ MultiPolygonOf(features[2].geometry, polygons.polys)
    /\ features[1].geometry.type = "Polygon"
    /\ Len(features[1].geometry.coordinates) = 1

\* C12: rows are iterated and parsed only during the first call; once a
\* collection is stored no step iterates, parses or stores again, and every
\* later call returns the very value the first call returned.
C12_Memoized ==
    [][/\ (i' # i \/ polygons' # polygons \/ features' # features) =>
              (~cache.set /\ calls' = 1)
       /\ cache.set =>
              /\ cache' = cache
              /\ pc' = "idle"
              /\ calls' = calls + 1 => returned' = Value(cache.value)
       /\ (returned.set /\ returned'.set) => returned'.value = returned.value]_vars

\* C12 witness: a second call has returned the collection of two rows that the
\* first call computed and stored
C12_Witness ==
    /\ calls = 2 /\ pc = "idle"
    /\ returned.set /\ cache.set /\ returned.value = cache.value
    /\ Len(nta_geo) = 2 /\ i = 2
    /\ returned.value.features = features /\ Len(features) >= 1

\* the parser gives None for the geometry of each of the first n rows
RECURSIVE AllAbsent(_)
AllAbsent(n) ==
    IF n = 0 THEN TRUE
    ELSE /\ parse_wkt_multipolygon(nta_geo[n]["the_geom"]).ret.isNone
         /\ AllAbsent(n - 1)

\* C13: on a dataset without rows, or whose rows all have an absent geometry,
\* the call is not left by an exception and returns a FeatureCollection whose
\* features list is empty.
C13_EmptyCollection ==
    /\ pc = "raised" => ~AllAbsent(Len(nta_geo))
    /\ (returned.set /\ AllAbsent(Len(nta_geo))) =>
          returned.value = [type |-> "FeatureCollection", features |-> << >>]
    /\ (calls >= 1 /\ pc = "idle" /\ Len(nta_geo) = 0) => returned.set

\* C13 witness: the collection returned for two rows, neither of which has a
\* geometry the parser accepts, is empty
C13_Witness ==
    /\ returned.set /\ Len(nta_geo) = 2
    /\ polygons.isNone /\ AllAbsent(2)
    /\ returned.value.features = << >>

\* the number of polygon groups the structured match found in the geometry
\* of row i
LastGroups == parse_wkt_multipolygon(LastGeom).groups

\* C14: the single-polygon fallback gives a result only when the structured
\* match found no group: when it found at least one group and every group was
\* dropped, the parser returns None and the row gets no feature.
C14_FallbackOnlyWithoutGroups ==
    (Processed /\ path = "fallback" /\ LastGroups >= 1) =>
        /\ polygons = None
        /\ i = 1 => features = << >>

\* the geometry of row i was written from a list of candidates
LastFromCands == ~LastKnown /\ LastTree # << >>

\* the candidates the geometry of row i was written from
LastCands == LastTree[1]

\* the coordinate rule: at least 2 tokens, the first two of them numbers
Contributes(c) == Len(c) >= 2 /\ c[1].ok /\ c[2].ok

\* the coordinates of the candidates that contribute, in their order
CandCoords(cands) ==
    LET ok == SelectSeq(cands, Contributes)
    IN [k \in 1..Len(ok) |-> << ok[k][1].x, ok[k][2].x >>]

\* a candidate whose first or second token is not a number
FailsToParse(c) == Len(c) >= 2 /\ ~(c[1].ok /\ c[2].ok)

\* the candidates left when those that fail to parse are taken out
Remaining(cands) == SelectSeq(cands, LAMBDA c : ~FailsToParse(c))

\* the ring of the well-formed pairs of a ring of a tree
RemainingOfRing(ring) ==
    LET ok == SelectSeq(ring, LAMBDA c : c.ok)
    IN [k \in 1..Len(ok) |-> << ok[k].x, ok[k].y >>]

\* a hole-free tree with a candidate that fails to parse, every ring of which
\* has at least 3 well-formed pairs
LocalFailureTree(tree) ==
    /\ \A p \in 1..Len(tree) :
          Len(tree[p]) = 1 /\ Len(RemainingOfRing(tree[p][1])) >= 3
    /\ \E p \in 1..Len(tree) : \E k \in 1..Len(tree[p][1]) : ~tree[p][1][k].ok

\* C15: a candidate whose first or second token is not a number is dropped
\* and parsing goes on: the ring is exactly the remaining well-formed
\* candidates in their order, it is retained when at least 3 remain, and the
\* rings of the other polygons are not affected.
C15_LocalTokenFailure ==
    /\ (/\ Processed /\ LastFromCands
        /\ \E k \in 1..Len(LastCands) : FailsToParse(LastCands[k])
        /\ \A k \in 1..Len(Remaining(LastCands)) : Len(Remaining(LastCands)[k]) >= 2
        /\ Len(Remaining(LastCands)) >= 3) =>
           /\ polygons = Some(<< << [k \in 1..Len(Remaining(LastCands)) |->
                                     << Remaining(LastCands)[k][1].x,
                                        Remaining(LastCands)[k][2].x >>] >> >>)
           /\ features # << >>
    /\ (Processed /\ LastKnown /\ LocalFailureTree(LastTree)) =>
           polygons = Some([p \in 1..Len(LastTree) |-> << RemainingOfRing(LastTree[p][1]) >>])

\* C15 witness: the second token of the third of four candidates is not a
\* number, and the ring of the other three has been returned
C15_Witness ==
    /\ Processed /\ LastFromCands /\ Len(LastCands) = 4
    /\ LastCands[3] = << NumTok(0), WordTok(1) >>
    /\ path = "structured"
    /\ polygons = Some(<< << << << 7, 1 >>, << 7, 2 >>, << 7, 3 >> >> >> >>)

\* the list of polygons returned for one ring of the coordinates coords
OneRingResult(coords) ==
    IF Len(coords) >= 3 THEN Some(<< << coords >> >>) ELSE None

\* C16: a candidate contributes a coordinate if and only if it has at least 2
\* whitespace-separated tokens and the first two are numbers; the coordinate is
\* [first token, second token], and a third token does not invalidate the
\* candidate.
C16_CoordinateRule ==
    (Processed /\ LastFromCands) =>
        /\ polygons = OneRingResult(CandCoords(LastCands))
        /\ \A k \in 1..Len(LastCands) :
              (Len(LastCands[k]) = 3 /\ Contributes(LastCands[k]) /\ ~polygons.isNone) =>
                  \E n \in 1..Len(polygons.polys[1][1]) :
                      polygons.polys[1][1][n] = << LastCands[k][1].x, LastCands[k][2].x >>
        /\ (Len(LastCands) = 4 /\ ~polygons.isNone) =>
              (Len(polygons.polys[1][1]) = 4 <=> \A k \in 1..4 : Contributes(LastCands[k]))

\* C16 witness: the candidate "0 -1 x" between well-formed pairs, read by the
\* fallback, has given the coordinate [0, -1]
C16_Witness ==
    /\ Processed /\ LastFromCands /\ Len(LastCands) = 4
    /\ LastCands[2] = << NumTok(0), NumTok(-1), WordTok(1) >>
    /\ path = "fallback"
    /\ polygons = Some(<< << << << 7, 1 >>, << 0, -1 >>, << 7, 2 >>, << 7, 3 >> >> >> >>)

\* a coordinate is a pair of two numbers
IsCoordinate(c) == Len(c) = 2 /\ c[1] \in Int /\ c[2] \in Int

\* a non-empty list of polygons of at least one ring, each ring of at least 3
\* coordinates
WellFormed(polys) ==
    /\ Len(polys) >= 1
    /\ \A p \in 1..Len(polys) :
          /\ Len(polys[p]) >= 1
          /\ \A r \in 1..Len(polys[p]) :
                /\ Len(polys[p][r]) >= 3
                /\ \A k \in 1..Len(polys[p][r]) : IsCoordinate(polys[p][r][k])

\* C17: for every input the parser returns None or a non-empty list of
\* polygons, every polygon with at least one ring and every ring with at least
\* 3 coordinates that are pairs of numbers; never an empty list, an empty
\* polygon or a ring of fewer than 3 coordinates.
C17_WellFormedOutput ==
    i >= 1 => (polygons = None \/ (~polygons.isNone /\ WellFormed(polygons.polys)))

\* C17 witness: of two polygons written, the first with a ring of 2 pairs,
\* only the second has been returned
C17_Witness ==
    /\ Processed /\ LastKnown /\ HoleFreeMulti(LastTree)
    /\ Len(LastTree[1][1]) = 2 /\ Len(LastTree[2][1]) >= 3
    /\ polygons = Some(<< << TreeCoords(LastTree)[2][1] >> >>)

\* the coordinates of the rings among the first n of a list that have at
\* least 3 pairs, in their order
RECURSIVE RetainedOf(_, _)
RetainedOf(rs, n) ==
    IF n = 0 THEN << >>
    ELSE IF Len(rs[n]) >= 3
    THEN Append(RetainedOf(rs, n - 1), [k \in 1..Len(rs[n]) |-> << rs[n][k].x, rs[n][k].y >>])
    ELSE RetainedOf(rs, n - 1)

\* C18: on the text of a polygon group whose rings are separated by ")",
\* optional whitespace, "," optional whitespace, "(", the ring loop gets one
\* candidate per ring in input order, retains exactly the rings of at least 3
\* coordinates whatever their siblings are, and so the first retained ring
\* comes first in the polygon even when an earlier, shorter ring was dropped.
C18_RingSplitting ==
    /\ ring_loop.pc \in {"rings", "done"} =>
          /\ Len(ring_loop.ring_parts) = Len(ring_loop.source)
          /\ ring_loop.rings = RetainedOf(ring_loop.source, ring_loop.k)
    /\ ring_loop.pc = "done" =>
          /\ ring_loop.k = Len(ring_loop.source)
          /\ ring_loop.polygons =
                IF RetainedOf(ring_loop.source, Len(ring_loop.source)) = << >> THEN << >>
                ELSE << RetainedOf(ring_loop.source, Len(ring_loop.source)) >>
    /\ ring_loop.pc # "raised"

\* C18 witness: of three rings the first, of 2 pairs, has been dropped, and
\* the second is the first ring of the polygon, the third following it
C18_Witness ==
    /\ ring_loop.pc = "done"
    /\ Len(ring_loop.source) = 3
    /\ Len(ring_loop.source[1]) = 2
    /\ ring_loop.polygons = << << << << 4, 1 >>, << 4, 2 >>, << 4, 3 >> >>,
                                   << << 9, 1 >>, << 9, 2 >>, << 9, 3 >> >> >> >>

\* the first place from index from on where the character c stands three
\* times in a row
FirstTriple(s, c, from) ==
    SetMin({p \in from..Len(s) : p + 2 <= Len(s) /\ s[p] = c /\ s[p + 1] = c /\ s[p + 2] = c})

\* the text between the first "(((" of s and the first ")))" that begins at
\* least gap characters after it
BlockText(s, gap) ==
    SubSeq(s, FirstTriple(s, "(", 1) + 3,
              FirstTriple(s, ")", FirstTriple(s, "(", 1) + 3 + gap) - 1)

\* the candidate contributes a coordinate
IsPair(cand) ==
    /\ Len(Tokens(Strip(cand))) >= 2
    /\ IsFloat(Tokens(Strip(cand))[1])
    /\ IsFloat(Tokens(Strip(cand))[2])

\* the well-formed pairs among the comma-separated candidates of a text
PairsOf(text) ==
    LET ok == SelectSeq(SplitOn(text, ","), IsPair)
    IN [k \in 1..Len(ok) |->
           << FloatVal(Tokens(Strip(ok[k]))[1]), FloatVal(Tokens(Strip(ok[k]))[2]) >>]

\* the fallback has produced the result for row i
FallbackResult == Processed /\ path = "fallback" /\ ~polygons.isNone

\* C19 as stated: whenever the fallback produces the result, the result is one
\* polygon of one ring, the well-formed pairs of the text between the first
\* "(((" of the string and the first ")))" that follows it, in input order.
C19_FallbackBlock ==
    FallbackResult =>
        polygons = Some(<< << PairsOf(BlockText(Strip(LastGeom), 0)) >> >>)

\* C19 amended: whenever the fallback produces the result, the result is one
\* polygon of one ring, the well-formed pairs of the text between the first
\* "(((" of the string and the first ")))" that begins at least one character
\* after it, in input order.
C19_FallbackNonEmptyBlock ==
    FallbackResult =>
        /\ Len(polygons.polys) = 1 /\ Len(polygons.polys[1]) = 1
        /\ polygons = Some(<< << PairsOf(BlockText(Strip(LastGeom), 1)) >> >>)
        /\ features # << >> /\ LastFeature.geometry.type = "Polygon"

\* C19 witness: of two triple-parenthesis blocks the fallback has read the
\* first one, up to its ")))", as one ring
C19_Witness ==
    /\ FallbackResult /\ LastGeom = TextTwoBlocks
    /\ polygons = Some(<< << << << 0, 0 >>, << 1, 0 >>, << 6, 5 >>, << 6, 6 >> >> >> >>)

\* the text is MULTIPOLYGON, optional whitespace, "(", at least one character,
\* and ")" as its very last character
HasOuterShape(s) ==
    /\ Len(s) >= 12
    /\ SubSeq(s, 1, 12) = << "M", "U", "L", "T", "I", "P", "O", "L", "Y", "G", "O", "N" >>
    /\ s[Len(s)] = ")"
    /\ \E a \in 13..(Len(s) - 2) :
          /\ s[a] = "("
          /\ \A j \in 13..(a - 1) : s[j] \in {" ", "\n"}

\* C20: when the trimmed string is not MULTIPOLYGON, optional whitespace, "(",
\* at least one character and ")" as the very last character, the parser
\* returns None before the structured match and the fallback, and the row
\* gets no feature.
C20_AnchoredOuter ==
    [][(/\ pc = "loop" /\ i < Len(nta_geo) /\ i' = i + 1
        /\ nta_geo[i + 1]["the_geom"] # Null
        /\ ~HasOuterShape(Strip(nta_geo[i + 1]["the_geom"])))
       => /\ polygons' = None
          /\ path' \in {"missing", "prefix", "outer"}
          /\ features' = features
          /\ pc' = "loop"]_vars

\* C20 witness: the text with a dimension flag after the keyword has been
\* turned down by the anchored pattern
C20_Witness ==
    /\ Processed /\ LastGeom = TextZ
    /\ path = "outer" /\ polygons = None /\ features = << >>

\* C21: when callers invoke create_nta_geojson_full at the same time before
\* any result has been stored, the collection is computed and stored exactly
\* once, and every caller receives the same FeatureCollection, the stored one.
C21_ComputedOnce ==
    /\ callers.computed <= 1
    /\ callers.stored <= 1
    /\ \A t \in DOMAIN callers.thread :
          callers.thread[t].pc = "done" =>
              /\ callers.computed = 1 /\ callers.stored = 1
              /\ callers.thread[t].result = callers.cache

\* the geometries that the four texts of the datasets of several rows have,
\* each taken by itself (<< >>: the row is omitted; for the polygon with a
\* hole, the single ring of C1)
GeometryOfText(text) ==
    CASE text = Wkt(TreeSimple, Styles[1]) ->
            << [type |-> "Polygon",
                coordinates |-> << << << 0, 0 >>, << 1, 0 >>, << 1, 1 >>, << 0, 1 >>,
                                      << 0, 0 >> >> >>] >>
      [] text = Wkt(TreeTwo, Styles[2]) ->
            << [type |-> "MultiPolygon",
                coordinates |-> << << << << 0, 0 >>, << 1, 0 >>, << 1, 1 >>, << 0, 0 >> >> >>,
                                   << << << 5, 5 >>, << 6, 5 >>, << 6, 6 >>, << 5, 5 >> >> >> >>] >>
      [] text = Wkt(TreeHole, Styles[1]) ->
            << [type |-> "Polygon",
                coordinates |-> << << << 0, 0 >>, << 10, 0 >>, << 10, 10 >>, << 0, 10 >>,
                                      << 4, 2 >>, << 4, 4 >>, << 2, 4 >>, << 2, 2 >> >> >>] >>
      [] text = TextPolygon -> << >>

\* the features (none or one) of a row taken by itself: its geometry with its
\* own three properties and its name
FeaturesOfRow(row) ==
    [k \in 1..Len(GeometryOfText(row["the_geom"])) |->
        [type |-> "Feature",
         geometry |-> GeometryOfText(row["the_geom"])[k],
         properties |-> [NTAName |-> row["NTAName"], BoroName |-> row["BoroName"],
                         NTA2020 |-> row["NTA2020"]],
         id |-> row["NTAName"]]]

\* the text is one of those GeometryOfText knows
TextOfSeveralRows(text) ==
    text \in {Wkt(TreeSimple, Styles[1]), Wkt(TreeTwo, Styles[2]), Wkt(TreeHole, Styles[1]),
              TextPolygon}

\* C22: the feature a row gets, or its omission, depends on the four fields
\* of that row only: at every position and whatever rows come before or after
\* it, the loop step of the row adds exactly the features of the row taken by
\* itself; and no step changes the rows of the dataset.
C22_RowIndependence ==
    [][/\ nta_geo' = nta_geo
       /\ (/\ pc = "loop" /\ i < Len(nta_geo) /\ i' = i + 1
           /\ TextOfSeveralRows(nta_geo[i + 1]["the_geom"]))
          => features' = features \o FeaturesOfRow(nta_geo[i + 1])]_vars

\* C22 witness: the same row twice in a dataset has got the same feature twice
C22_Witness ==
    /\ Len(nta_geo) = 2 /\ i = 2 /\ pc = "loop"
    /\ nta_geo[1] = nta_geo[2]
    /\ Len(features) = 2 /\ features[1] = features[2]
    /\ features[2].geometry.type = "MultiPolygon"

\* what ends a candidate pair in a text: a comma or a parenthesis
PairDelims == {",", "(", ")"}

RECURSIVE StretchesFrom(_, _)
\* the maximal stretches of s from index from that hold no comma and no
\* parenthesis, left to right
StretchesFrom(s, from) ==
    IF SkipUntil(s, from, PairDelims) > Len(s)
    THEN << SubSeq(s, from, Len(s)) >>
    ELSE << SubSeq(s, from, SkipUntil(s, from, PairDelims) - 1) >>
         \o StretchesFrom(s, SkipUntil(s, from, PairDelims) + 1)

RECURSIVE WrittenPairs(_, _)
\* the candidate pairs written in the first n stretches: the stretches whose
\* first two words are numbers, as [first, second], left to right
WrittenPairs(stretches, n) ==
    IF n = 0 THEN << >>
    ELSE IF /\ Len(Tokens(stretches[n])) >= 2
            /\ IsFloat(Tokens(stretches[n])[1])
            /\ IsFloat(Tokens(stretches[n])[2])
    THEN Append(WrittenPairs(stretches, n - 1),
                << FloatVal(Tokens(stretches[n])[1]), FloatVal(Tokens(stretches[n])[2]) >>)
    ELSE WrittenPairs(stretches, n - 1)

\* the candidate pairs of an input text, read left to right
CandidatePairs(text) == WrittenPairs(StretchesFrom(text, 1), Len(StretchesFrom(text, 1)))

RECURSIVE Flat(_)
\* the members of the members of a list, in order
Flat(ss) == IF ss = << >> THEN << >> ELSE Head(ss) \o Flat(Tail(ss))

\* the coordinates of a result in output order: polygon by polygon, ring by ring
OutputCoords(polys) == Flat(Flat(polys))

RECURSIVE IsSubsequenceFrom(_, _, _, _)
\* a[j..] can be got from b[k..] by leaving members out
IsSubsequenceFrom(a, j, b, k) ==
    IF j > Len(a) THEN TRUE
    ELSE IF k > Len(b) THEN FALSE
    ELSE IF a[j] = b[k] THEN IsSubsequenceFrom(a, j + 1, b, k + 1)
    ELSE IsSubsequenceFrom(a, j, b, k + 1)

IsSubsequence(a, b) == IsSubsequenceFrom(a, 1, b, 1)

\* C23: the coordinates of a result, read polygon by polygon and ring by ring,
\* are a subsequence of the candidate pairs written in the input text, read
\* left to right: a result may lose pairs of the text, but holds no pair that
\* is not written in it, no pair twice that is written once, and no two pairs
\* in another order than the text's.
C23_NoInventedData ==
    (Processed /\ LastGeom # Null /\ ~polygons.isNone) =>
        IsSubsequence(OutputCoords(polygons.polys), CandidatePairs(LastGeom))

\* C23 witness: a text of two polygons has given all its pairs, polygon by
\* polygon, in the order of the text
C23_Witness ==
    /\ Processed /\ LastGeom # Null /\ ~polygons.isNone
    /\ Len(polygons.polys) = 2
    /\ Len(CandidatePairs(LastGeom)) >= 6
    /\ OutputCoords(polygons.polys) = CandidatePairs(LastGeom)
    /\ polygons.polys[1][1][1] # polygons.polys[2][1][1]

\* the tree is one polygon of an exterior ring and at least one hole
HoleTree(tree) == Len(tree) = 1 /\ Len(tree[1]) >= 2

\* the pairs of ring r of a polygon that stand at no ring boundary: all but the
\* pair after the "(" that opens a later ring and the pair before the ")" that
\* closes an earlier one
AwayFromBoundary(rings, r) ==
    SubSeq(rings[r], IF r = 1 THEN 1 ELSE 2,
           IF r = Len(rings) THEN Len(rings[r]) ELSE Len(rings[r]) - 1)

\* the one ring these pairs make, in the order of the rings
MergedRing(rings) == Flat([r \in 1..Len(rings) |-> AwayFromBoundary(rings, r)])

C25_AdjacentParentheses ==
    [][(/\ pc = "loop" /\ i < Len(nta_geo) /\ i' = i + 1
        /\ nta_geo[i + 1]["the_geom"] \in SpacedTexts)
       => /\ polygons' = None
          /\ features' = features]_vars

====
